---- MODULE Spec2Model ----
(***************************************************************************)
(* EduDesk password-reset token lifecycle: the two Express handlers of the *)
(* deployment guide (POST /api/forgot-password, POST /api/reset-password)  *)
(* running as concurrent requests against the shared tables users and      *)
(* password_resets.  Every await of a handler is one interleaving point:   *)
(* an action is the database (or mail) call completing together with the   *)
(* synchronous code that follows it up to the next await.                  *)
(***************************************************************************)
EXTENDS Integers, Sequences, FiniteSets, TLC

(* ---------------------------------------------------------------- bounds *)
\* Concurrent request slots; a slot is reused once its request has ended.
MaxReqs == 2
\* The clock runs 0..MaxTime; one tick is half an hour.
MaxTime == 2
\* Requests started in one behaviour of Spec.
MaxStarts == 3
\* Requests started in one behaviour of SpecSeq, where they run one at a time.
MaxSeqStarts == 6

(* ------------------------------------------------------------- constants *)
\* Date.now() + 3600000: one hour, in clock ticks of half an hour.
Hour == 2
\* bcrypt.hash(password, 10)
SaltRounds == 10
\* "Minimum 8 characters"
MinPasswordLength == 8

ReqIds == 1..MaxReqs
Emails == {"a@edudesk", "b@edudesk"}
Registered == {"a@edudesk"}
Tokens == {"t1", "t2"}

\* Passwords are sequences of characters.
Uppercase == {"A", "B", "N", "O", "P"}
Lowercase == {"a", "b", "c", "d", "e", "f", "g", "l", "s", "w"}
Digits == {"1", "2", "3", "4", "5"}
WeakPassword == <<"a", "b", "c", "1", "2", "3", "4", "5">>
StrongPassword == <<"A", "b", "c", "d", "e", "f", "g", "1">>
InitialPassword == <<"O", "l", "d", "P", "a", "s", "s", "1">>
Passwords == {WeakPassword, StrongPassword}

\* The documented password requirements (the handler itself never applies them).
MeetsPolicy(p) ==
    /\ Len(p) >= MinPasswordLength
    /\ \E i \in 1..Len(p) : p[i] \in Uppercase
    /\ \E i \in 1..Len(p) : p[i] \in Lowercase
    /\ \E i \in 1..Len(p) : p[i] \in Digits

\* bcrypt.hash(password, 10): a one-way digest of the password at a cost factor.
Hash(p) == [alg |-> "bcrypt", rounds |-> SaltRounds, of |-> p]
NoHash == [alg |-> "", rounds |-> 0, of |-> <<>>]

(* ------------------------------------------------------------- responses *)
NoResp == [status |-> 0, body |-> ""]
\* An await rejected: the async handler throws and sends nothing itself.
Threw == [status |-> 0, body |-> "unhandled rejection"]
NotRegisteredResp ==
    [status |-> 200, body |-> "If this email is registered, a reset link will be sent."]
LinkSentResp ==
    [status |-> 200, body |-> "Password reset link has been sent to your email."]
InvalidResp == [status |-> 400, body |-> "Invalid or expired token"]
SuccessResp == [status |-> 200, body |-> "Password reset successful"]

(* ----------------------------------------------------------------- state *)
VARIABLES
    now,              \* the clock (Date.now() and the database's NOW())
    users,            \* table users: email -> password_hash, registered emails only
    password_resets,  \* table password_resets: a set of rows
    nextId,           \* the SERIAL sequence of password_resets.id
    started,          \* requests started so far
    reqs,             \* the request slots: each handler's locals and position
    cause,            \* history: what a reset request's token was when looked up
    consumed,         \* history: <<id, token>> of rows whose confirmation was answered with success
    seen,             \* history: <<cause, response>> of the answered reset-password requests
    localStorage,     \* the browser's localStorage: key -> string, stored keys only
    location,         \* window.location.href of the page
    calls,            \* the client's API calls: each async method's locals and position
    loggedOut         \* history: logout has run and no call started after it has written a session

serverVars == <<now, users, password_resets, nextId, started, reqs, cause, consumed, seen>>
clientVars == <<localStorage, location, calls, loggedOut>>
vars == <<now, users, password_resets, nextId, started, reqs, cause, consumed, seen,
          localStorage, location, calls, loggedOut>>

NoRow == [id |-> 0, email |-> "", token |-> "", expires_at |-> 0, created_at |-> 0]

IdleReq ==
    [kind |-> "none", pc |-> "idle", email |-> "", token |-> "", password |-> <<>>,
     userFound |-> FALSE, expiresAt |-> 0, rowid |-> 0, mail |-> "none",
     row |-> NoRow, passwordHash |-> NoHash, rowCount |-> -1, resp |-> NoResp]

(* ------------------------------------------------------- client: values *)
\* Client call slots; a slot is reused once its call has ended.
MaxCalls == 2
CallIds == 1..MaxCalls

\* JavaScript values returned by the API wrappers.
NoRet == [t |-> "none", v |-> "", error |-> ""]
JsEmptyList == [t |-> "array", v |-> "[]", error |-> ""]
JsNull == [t |-> "null", v |-> "null", error |-> ""]
JsFalse == [t |-> "boolean", v |-> "false", error |-> ""]
JsTrue == [t |-> "boolean", v |-> "true", error |-> ""]
JsPayload == [t |-> "json", v |-> "payload", error |-> ""]
\* What an async method does when an exception leaves it: its promise rejects.
JsThrew == [t |-> "threw", v |-> "", error |-> ""]
AuthSuccess(d) == [t |-> "success", v |-> d.access_token, error |-> ""]
AuthFailure(e) == [t |-> "failure", v |-> "", error |-> e]
NetworkError == "Network error. Make sure the Flask backend is running on port 5001."
ServerErrors == {"Invalid credentials"}

\* Bodies of the ok responses of /auth/login and /auth/signup.
User1 == [id |-> 1, email |-> "a@edudesk"]
User2 == [id |-> 2, email |-> "b@edudesk"]
NullUser == [id |-> 0, email |-> ""]
OkResponses ==
    {[access_token |-> "jwt1", user |-> User1], [access_token |-> "jwt2", user |-> User2]}

\* JSON.stringify(data.user) and JSON.parse(userStr).
Stringify(u) ==
    IF u = User1 THEN "{\"id\":1,\"email\":\"a@edudesk\"}"
    ELSE "{\"id\":2,\"email\":\"b@edudesk\"}"
Parse(str) == CHOOSE u \in {User1, User2} : Stringify(u) = str

AuthOps == {"login", "signup"}
\* Wrappers whose catch returns [].
ListOps == {"getEvents", "getMoodEntries", "getGoals", "getStudySessions"}
\* Wrappers whose catch returns null.
NullOps ==
    {"createEvent", "updateEvent", "createMoodEntry", "getMoodAnalytics", "createGoal",
     "updateGoalProgress", "createStudySession", "getStudyAnalytics"}
\* deleteEvent returns response.ok, and false from its catch.
BoolOps == {"deleteEvent"}
ResourceOps == ListOps \cup NullOps \cup BoolOps

Pages == {"login.html", "dashboard.html"}
ProtectedPages == {"dashboard.html", "calendar.html", "mood-tracker.html", "goals.html"}

IdleCall ==
    [op |-> "none", pc |-> "idle", bearer |-> "", ok |-> FALSE, ret |-> NoRet,
     stale |-> FALSE]

Init ==
    /\ now = 0
    /\ users = [e \in Registered |-> Hash(InitialPassword)]
    /\ password_resets = {}
    /\ nextId = 1
    /\ started = 0
    /\ reqs = [r \in ReqIds |-> IdleReq]
    /\ cause = [r \in ReqIds |-> "none"]
    /\ consumed = {}
    /\ seen = {}
    /\ localStorage = <<>>
    /\ location = "login.html"
    /\ calls = [c \in CallIds |-> IdleCall]
    /\ loggedOut = FALSE

Free(r) == reqs[r].pc \in {"idle", "done"}

(* ------------------------------------------------------------ environment *)
\* Time passes.
Tick ==
    /\ now < MaxTime
    /\ now' = now + 1
    /\ UNCHANGED <<users, password_resets, nextId, started, reqs, cause, consumed, seen>>

\* An account is removed from the account store.
DeleteUser(e) ==
    /\ e \in DOMAIN users
    /\ users' = [x \in DOMAIN users \ {e} |-> users[x]]
    /\ UNCHANGED <<now, password_resets, nextId, started, reqs, cause, consumed, seen>>

(* -------------------------------------------------------- forgot-password *)
\* const { email } = req.body; the SELECT on users is sent.
BeginForgot(r, email) ==
    /\ reqs' = [reqs EXCEPT ![r] =
                  [IdleReq EXCEPT !.kind = "forgot", !.pc = "lookup", !.email = email]]
    /\ cause' = [cause EXCEPT ![r] = "none"]
    /\ started' = started + 1
    /\ UNCHANGED <<now, users, password_resets, nextId, consumed, seen>>

\* A forgot-password request arrives in the lowest free slot.
StartForgot(r, email) ==
    /\ Free(r) /\ \A q \in 1..(r - 1) : ~Free(q)
    /\ started < MaxStarts
    /\ BeginForgot(r, email)

\* A forgot-password request arrives while no other request is running.
SeqStartForgot(email) ==
    /\ \A q \in ReqIds : Free(q)
    /\ started < MaxSeqStarts
    /\ BeginForgot(1, email)

\* ForgotLookup with the wrong lifetime added to Date.now().
ForgotLookupWrongExpiry(r) ==
    /\ reqs[r].kind = "forgot" /\ reqs[r].pc = "lookup"
    /\ IF reqs[r].email \notin DOMAIN users
       THEN reqs' = [reqs EXCEPT ![r].pc = "done", ![r].resp = NotRegisteredResp]
       ELSE \E t \in Tokens :
              reqs' = [reqs EXCEPT ![r].pc = "insert", ![r].userFound = TRUE,
                                   ![r].token = t, ![r].expiresAt = now + Hour + 1]
    /\ UNCHANGED <<now, users, password_resets, nextId, started, cause, consumed, seen>>

\* The SELECT returns.  No user: answer and end.  Otherwise generate the token,
\* compute expiresAt from Date.now() and send the INSERT.
ForgotLookup(r) ==
    /\ reqs[r].kind = "forgot" /\ reqs[r].pc = "lookup"
    /\ IF reqs[r].email \notin DOMAIN users
       THEN reqs' = [reqs EXCEPT ![r].pc = "done", ![r].resp = NotRegisteredResp]
       ELSE \E t \in Tokens :
              reqs' = [reqs EXCEPT ![r].pc = "insert", ![r].userFound = TRUE,
                                   ![r].token = t, ![r].expiresAt = now + Hour]
    /\ UNCHANGED <<now, users, password_resets, nextId, started, cause, consumed, seen>>

\* The INSERT executes: id from the sequence, created_at from CURRENT_TIMESTAMP,
\* token UNIQUE.  A duplicate token rejects the query and the handler throws.
ForgotInsert(r) ==
    /\ reqs[r].kind = "forgot" /\ reqs[r].pc = "insert"
    /\ nextId' = nextId + 1
    /\ IF \E x \in password_resets : x.token = reqs[r].token
       THEN /\ reqs' = [reqs EXCEPT ![r].pc = "done", ![r].resp = Threw]
            /\ UNCHANGED password_resets
       ELSE /\ password_resets' = password_resets \cup
                  {[id |-> nextId, email |-> reqs[r].email, token |-> reqs[r].token,
                    expires_at |-> reqs[r].expiresAt, created_at |-> now]}
            /\ reqs' = [reqs EXCEPT ![r].pc = "mail", ![r].rowid = nextId]
    /\ UNCHANGED <<now, users, started, cause, consumed, seen>>

\* await sendResetEmail(email, token) resolves; res.json follows.
ForgotMailSent(r) ==
    /\ reqs[r].kind = "forgot" /\ reqs[r].pc = "mail"
    /\ reqs' = [reqs EXCEPT ![r].pc = "done", ![r].mail = "sent",
                            ![r].resp = LinkSentResp]
    /\ UNCHANGED <<now, users, password_resets, nextId, started, cause, consumed, seen>>

\* transporter.sendMail rejects: the await throws, res.json is never reached.
ForgotMailFailed(r) ==
    /\ reqs[r].kind = "forgot" /\ reqs[r].pc = "mail"
    /\ reqs' = [reqs EXCEPT ![r].pc = "done", ![r].mail = "failed", ![r].resp = Threw]
    /\ UNCHANGED <<now, users, password_resets, nextId, started, cause, consumed, seen>>

(* --------------------------------------------------------- reset-password *)
\* ValidRows without the expires_at > NOW() condition.
ValidRowsIgnoringExpiry(t) == {x \in password_resets : x.token = t}

\* ValidRows with the comparison expires_at >= NOW().
ValidRowsInclusive(t) == {x \in password_resets : x.token = t /\ x.expires_at >= now}

\* Rows the SELECT of reset-password returns: token = $1 AND expires_at > NOW().
ValidRows(t) == {x \in password_resets : x.token = t /\ x.expires_at > now}

\* History only: the state of token t as a request presents it.
TokenCause(t) ==
    LET rows == {x \in password_resets : x.token = t} IN
    IF rows # {}
    THEN IF \E x \in rows : <<x.id, x.token>> \in consumed THEN "consumed"
         ELSE IF \E x \in rows : x.expires_at > now THEN "active" ELSE "expired"
    ELSE IF \E x \in consumed : x[2] = t THEN "consumed" ELSE "never"

\* const { token, password } = req.body; the SELECT on password_resets is sent.
BeginReset(r, token, password) ==
    /\ reqs' = [reqs EXCEPT ![r] =
                  [IdleReq EXCEPT !.kind = "reset", !.pc = "lookup", !.token = token,
                                  !.password = password]]
    /\ cause' = [cause EXCEPT ![r] = "none"]
    /\ started' = started + 1
    /\ UNCHANGED <<now, users, password_resets, nextId, consumed, seen>>

\* A reset-password request arrives in the lowest free slot.
StartReset(r, token, password) ==
    /\ Free(r) /\ \A q \in 1..(r - 1) : ~Free(q)
    /\ started < MaxStarts
    /\ BeginReset(r, token, password)

\* A reset-password request arrives while no other request is running.
SeqStartReset(token, password) ==
    /\ \A q \in ReqIds : Free(q)
    /\ started < MaxSeqStarts
    /\ BeginReset(1, token, password)

\* ResetLookup answering an expired token with a message of its own.
ResetLookupTellsExpired(r) ==
    /\ reqs[r].kind = "reset" /\ reqs[r].pc = "lookup"
    /\ cause' = [cause EXCEPT ![r] = TokenCause(reqs[r].token)]
    /\ IF ValidRows(reqs[r].token) = {}
       THEN LET answer == IF TokenCause(reqs[r].token) = "expired"
                          THEN [status |-> 400, body |-> "Token expired"]
                          ELSE InvalidResp
            IN /\ reqs' = [reqs EXCEPT ![r].pc = "done", ![r].resp = answer]
               /\ seen' = seen \cup {<<TokenCause(reqs[r].token), answer>>}
       ELSE /\ \E x \in ValidRows(reqs[r].token) :
                 reqs' = [reqs EXCEPT ![r].pc = "update", ![r].row = x,
                                      ![r].passwordHash = Hash(reqs[r].password)]
            /\ UNCHANGED seen
    /\ UNCHANGED <<now, users, password_resets, nextId, started, consumed>>

\* The SELECT returns.  No row: 400.  Otherwise hash the password and send the UPDATE.
ResetLookup(r) ==
    /\ reqs[r].kind = "reset" /\ reqs[r].pc = "lookup"
    /\ cause' = [cause EXCEPT ![r] = TokenCause(reqs[r].token)]
    /\ IF ValidRows(reqs[r].token) = {}
       THEN /\ reqs' = [reqs EXCEPT ![r].pc = "done", ![r].resp = InvalidResp]
            /\ seen' = seen \cup {<<TokenCause(reqs[r].token), InvalidResp>>}
       ELSE /\ \E x \in ValidRows(reqs[r].token) :
                 reqs' = [reqs EXCEPT ![r].pc = "update", ![r].row = x,
                                      ![r].passwordHash = Hash(reqs[r].password)]
            /\ UNCHANGED seen
    /\ UNCHANGED <<now, users, password_resets, nextId, started, consumed>>

\* UPDATE users SET password_hash = $1 WHERE email = $2, then the DELETE is sent.
ResetUpdate(r) ==
    /\ reqs[r].kind = "reset" /\ reqs[r].pc = "update"
    /\ IF reqs[r].row.email \in DOMAIN users
       THEN /\ users' = [users EXCEPT ![reqs[r].row.email] = reqs[r].passwordHash]
            /\ reqs' = [reqs EXCEPT ![r].pc = "delete", ![r].rowCount = 1]
       ELSE /\ UNCHANGED users
            /\ reqs' = [reqs EXCEPT ![r].pc = "delete", ![r].rowCount = 0]
    /\ UNCHANGED <<now, password_resets, nextId, started, cause, consumed, seen>>

\* ResetDelete without the DELETE: the used token stays in the table.
ResetDeleteKeepsRow(r) ==
    /\ reqs[r].kind = "reset" /\ reqs[r].pc = "delete"
    /\ reqs' = [reqs EXCEPT ![r].pc = "done", ![r].resp = SuccessResp]
    /\ consumed' = consumed \cup {<<reqs[r].row.id, reqs[r].row.token>>}
    /\ seen' = seen \cup {<<cause[r], SuccessResp>>}
    /\ UNCHANGED <<now, users, password_resets, nextId, started, cause>>

\* ResetDelete deleting every token of the account (WHERE email = ...).
ResetDeleteAllOfAccount(r) ==
    /\ reqs[r].kind = "reset" /\ reqs[r].pc = "delete"
    /\ password_resets' = {x \in password_resets : x.email # reqs[r].row.email}
    /\ reqs' = [reqs EXCEPT ![r].pc = "done", ![r].resp = SuccessResp]
    /\ consumed' = consumed \cup {<<reqs[r].row.id, reqs[r].row.token>>}
    /\ seen' = seen \cup {<<cause[r], SuccessResp>>}
    /\ UNCHANGED <<now, users, nextId, started, cause>>

\* DELETE FROM password_resets WHERE token = $1, then res.json.
ResetDelete(r) ==
    /\ reqs[r].kind = "reset" /\ reqs[r].pc = "delete"
    /\ password_resets' = {x \in password_resets : x.token # reqs[r].token}
    /\ reqs' = [reqs EXCEPT ![r].pc = "done", ![r].resp = SuccessResp]
    /\ consumed' = consumed \cup {<<reqs[r].row.id, reqs[r].row.token>>}
    /\ seen' = seen \cup {<<cause[r], SuccessResp>>}
    /\ UNCHANGED <<now, users, nextId, started, cause>>

(* ---------------------------------------------------------- store failure *)
\* A pending db.query rejects (store unavailable, connection lost): the await
\* throws and the rest of the handler does not run.
StoreFail(r) ==
    /\ reqs[r].pc \in {"lookup", "insert", "update", "delete"}
    /\ reqs' = [reqs EXCEPT ![r].pc = "done", ![r].resp = Threw]
    /\ UNCHANGED <<now, users, password_resets, nextId, started, cause, consumed, seen>>

Next ==
    \/ Tick /\ UNCHANGED clientVars
    \/ \E e \in Emails : DeleteUser(e) /\ UNCHANGED clientVars
    \/ \E r \in ReqIds, e \in Emails : StartForgot(r, e) /\ UNCHANGED clientVars
    \/ \E r \in ReqIds : ForgotLookup(r) /\ UNCHANGED clientVars
    \/ \E r \in ReqIds : ForgotInsert(r) /\ UNCHANGED clientVars
    \/ \E r \in ReqIds : ForgotMailSent(r) /\ UNCHANGED clientVars
    \/ \E r \in ReqIds : ForgotMailFailed(r) /\ UNCHANGED clientVars
    \/ \E r \in ReqIds, t \in Tokens, p \in Passwords : StartReset(r, t, p) /\ UNCHANGED clientVars
    \/ \E r \in ReqIds : ResetLookup(r) /\ UNCHANGED clientVars
    \/ \E r \in ReqIds : ResetUpdate(r) /\ UNCHANGED clientVars
    \/ \E r \in ReqIds : ResetDelete(r) /\ UNCHANGED clientVars
    \/ \E r \in ReqIds : StoreFail(r) /\ UNCHANGED clientVars

Spec == Init /\ [][Next]_vars

\* The same handlers with the requests arriving one after the other.
NextSeq ==
    \/ Tick /\ UNCHANGED clientVars
    \/ \E e \in Emails : DeleteUser(e) /\ UNCHANGED clientVars
    \/ \E e \in Emails : SeqStartForgot(e) /\ UNCHANGED clientVars
    \/ \E r \in ReqIds : ForgotLookup(r) /\ UNCHANGED clientVars
    \/ \E r \in ReqIds : ForgotInsert(r) /\ UNCHANGED clientVars
    \/ \E r \in ReqIds : ForgotMailSent(r) /\ UNCHANGED clientVars
    \/ \E r \in ReqIds : ForgotMailFailed(r) /\ UNCHANGED clientVars
    \/ \E t \in Tokens, p \in Passwords : SeqStartReset(t, p) /\ UNCHANGED clientVars
    \/ \E r \in ReqIds : ResetLookup(r) /\ UNCHANGED clientVars
    \/ \E r \in ReqIds : ResetUpdate(r) /\ UNCHANGED clientVars
    \/ \E r \in ReqIds : ResetDelete(r) /\ UNCHANGED clientVars
    \/ \E r \in ReqIds : StoreFail(r) /\ UNCHANGED clientVars

SpecSeq == Init /\ [][NextSeq]_vars

(* ---------------------------------------------------- client: AuthAPI *)
CallFree(c) == calls[c].pc \in {"idle", "done", "abandoned"}
InFlight(c) == calls[c].pc \in {"fetch", "json"}

\* Call c has returned ret: its locals are gone.
Returned(c, ret) ==
    [calls EXCEPT ![c] = [IdleCall EXCEPT !.op = calls[c].op, !.pc = "done", !.ret = ret]]

\* localStorage.getItem(key): the stored string, or null.
HasItem(key) == key \in DOMAIN localStorage
\* localStorage.setItem(key, value) on store st.
SetItem(st, key, value) ==
    [k \in DOMAIN st \cup {key} |-> IF k = key THEN value ELSE st[k]]
\* localStorage.removeItem(key) on store st.
RemoveItem(st, key) == [k \in DOMAIN st \ {key} |-> st[k]]

\* AuthAPI.isLoggedIn(): !!localStorage.getItem('access_token')
IsLoggedIn == HasItem("access_token") /\ localStorage["access_token"] # ""

\* AuthAPI.getCurrentUser(): userStr ? JSON.parse(userStr) : null
GetCurrentUser ==
    IF HasItem("user") /\ localStorage["user"] # ""
    THEN Parse(localStorage["user"]) ELSE NullUser

\* AuthAPI.getAuthHeaders(): the token put after 'Bearer ' (null prints as "null").
GetAuthHeaders == IF HasItem("access_token") THEN localStorage["access_token"] ELSE "null"

\* AuthAPI.login / AuthAPI.signup is called: the fetch is sent.
StartAuth(c, op) ==
    /\ CallFree(c) /\ \A q \in 1..(c - 1) : ~CallFree(q)
    /\ op \in AuthOps
    /\ calls' = [calls EXCEPT ![c] = [IdleCall EXCEPT !.op = op, !.pc = "fetch"]]
    /\ UNCHANGED <<localStorage, location, loggedOut>>

\* await fetch(...) resolves with a response, ok or not; response.json() is awaited.
AuthFetched(c, ok) ==
    /\ calls[c].op \in AuthOps /\ calls[c].pc = "fetch"
    /\ calls' = [calls EXCEPT ![c].pc = "json", ![c].ok = ok]
    /\ UNCHANGED <<localStorage, location, loggedOut>>

\* await fetch(...) rejects: the catch returns the network error.
AuthFetchFailed(c) ==
    /\ calls[c].op \in AuthOps /\ calls[c].pc = "fetch"
    /\ calls' = Returned(c, AuthFailure(NetworkError))
    /\ UNCHANGED <<localStorage, location, loggedOut>>

\* AuthJson storing the session whatever response.ok says.
AuthJsonIgnoringOk(c) ==
    /\ calls[c].op \in AuthOps /\ calls[c].pc = "json"
    /\ \E d \in OkResponses :
          /\ localStorage' = SetItem(SetItem(localStorage, "access_token", d.access_token),
                                     "user", Stringify(d.user))
          /\ calls' = Returned(c, AuthSuccess(d))
          /\ loggedOut' = IF calls[c].stale THEN loggedOut ELSE FALSE
    /\ UNCHANGED location

\* AuthJson without the second setItem.
AuthJsonTokenOnly(c) ==
    /\ calls[c].op \in AuthOps /\ calls[c].pc = "json"
    /\ IF calls[c].ok
       THEN \E d \in OkResponses :
              /\ localStorage' = SetItem(localStorage, "access_token", d.access_token)
              /\ calls' = Returned(c, AuthSuccess(d))
              /\ loggedOut' = IF calls[c].stale THEN loggedOut ELSE FALSE
       ELSE \E e \in ServerErrors :
              /\ calls' = Returned(c, AuthFailure(e))
              /\ UNCHANGED <<localStorage, loggedOut>>
    /\ UNCHANGED location

\* await response.json() resolves with data.  response.ok: both setItem calls,
\* then { success: true, data }; otherwise { success: false, error: data.error }.
AuthJson(c) ==
    /\ calls[c].op \in AuthOps /\ calls[c].pc = "json"
    /\ IF calls[c].ok
       THEN \E d \in OkResponses :
              /\ localStorage' = SetItem(SetItem(localStorage, "access_token", d.access_token),
                                         "user", Stringify(d.user))
              /\ calls' = Returned(c, AuthSuccess(d))
              /\ loggedOut' = IF calls[c].stale THEN loggedOut ELSE FALSE
       ELSE \E e \in ServerErrors :
              /\ calls' = Returned(c, AuthFailure(e))
              /\ UNCHANGED <<localStorage, loggedOut>>
    /\ UNCHANGED location

\* await response.json() rejects (the body is not JSON): the catch returns the
\* network error.
AuthJsonFailed(c) ==
    /\ calls[c].op \in AuthOps /\ calls[c].pc = "json"
    /\ calls' = Returned(c, AuthFailure(NetworkError))
    /\ UNCHANGED <<localStorage, location, loggedOut>>

\* Logout without the second removeItem.
LogoutKeepsUser ==
    /\ localStorage' = RemoveItem(localStorage, "access_token")
    /\ location' = "login.html"
    /\ calls' = [c \in CallIds |->
                   IF InFlight(c) THEN [calls[c] EXCEPT !.stale = TRUE] ELSE calls[c]]
    /\ loggedOut' = TRUE

\* AuthAPI.logout(): both removeItem calls and the redirect.  The calls in
\* flight are marked: they were started before this logout.
Logout ==
    /\ localStorage' = RemoveItem(RemoveItem(localStorage, "access_token"), "user")
    /\ location' = "login.html"
    /\ calls' = [c \in CallIds |->
                   IF InFlight(c) THEN [calls[c] EXCEPT !.stale = TRUE] ELSE calls[c]]
    /\ loggedOut' = TRUE

\* The redirect of logout unloads the page before a call in flight resumes:
\* that call never continues.
Abandon(c) ==
    /\ InFlight(c) /\ calls[c].stale
    /\ calls' = [calls EXCEPT ![c] = [IdleCall EXCEPT !.op = calls[c].op, !.pc = "abandoned"]]
    /\ UNCHANGED <<localStorage, location, loggedOut>>

\* A page loads; DOMContentLoaded sends a protected page without a session to
\* login.html.
PageLoad(page) ==
    /\ location' = IF page \in ProtectedPages /\ ~IsLoggedIn THEN "login.html" ELSE page
    /\ location' # location
    /\ UNCHANGED <<localStorage, calls, loggedOut>>

(* -------------------------------------------- client: resource wrappers *)
\* FailureValue with null from every catch.
FailureValueAlwaysNull(op) == IF op \in BoolOps THEN JsFalse ELSE JsNull

\* What the catch of wrapper op returns.
FailureValue(op) ==
    IF op \in ListOps THEN JsEmptyList
    ELSE IF op \in BoolOps THEN JsFalse
    ELSE JsNull

\* A resource wrapper is called: getAuthHeaders() reads the token, the fetch is sent.
StartResource(c, op) ==
    /\ CallFree(c) /\ \A q \in 1..(c - 1) : ~CallFree(q)
    /\ op \in ResourceOps
    /\ calls' = [calls EXCEPT ![c] =
                   [IdleCall EXCEPT !.op = op, !.pc = "fetch", !.bearer = GetAuthHeaders]]
    /\ UNCHANGED <<localStorage, location, loggedOut>>

\* await fetch(...) resolves.  deleteEvent returns response.ok; the others await
\* response.json() when ok and otherwise throw into their own catch.
ResourceFetched(c, ok) ==
    /\ calls[c].op \in ResourceOps /\ calls[c].pc = "fetch"
    /\ calls' = IF calls[c].op \in BoolOps
                THEN Returned(c, IF ok THEN JsTrue ELSE JsFalse)
                ELSE IF ok
                THEN [calls EXCEPT ![c].pc = "json", ![c].ok = TRUE]
                ELSE Returned(c, FailureValue(calls[c].op))
    /\ UNCHANGED <<localStorage, location, loggedOut>>

\* await fetch(...) rejects: the catch logs and returns the failure value.
ResourceFetchFailed(c) ==
    /\ calls[c].op \in ResourceOps /\ calls[c].pc = "fetch"
    /\ calls' = Returned(c, FailureValue(calls[c].op))
    /\ UNCHANGED <<localStorage, location, loggedOut>>

\* return await response.json() resolves.
ResourceJson(c) ==
    /\ calls[c].op \in ResourceOps /\ calls[c].pc = "json"
    /\ calls' = Returned(c, JsPayload)
    /\ UNCHANGED <<localStorage, location, loggedOut>>

\* return await response.json() rejects inside the try: the catch returns the
\* failure value.
ResourceJsonFailed(c) ==
    /\ calls[c].op \in ResourceOps /\ calls[c].pc = "json"
    /\ calls' = Returned(c, FailureValue(calls[c].op))
    /\ UNCHANGED <<localStorage, location, loggedOut>>

NextClient ==
    \/ \E c \in CallIds, op \in AuthOps : StartAuth(c, op) /\ UNCHANGED serverVars
    \/ \E c \in CallIds, ok \in BOOLEAN : AuthFetched(c, ok) /\ UNCHANGED serverVars
    \/ \E c \in CallIds : AuthFetchFailed(c) /\ UNCHANGED serverVars
    \/ \E c \in CallIds : AuthJson(c) /\ UNCHANGED serverVars
    \/ \E c \in CallIds : AuthJsonFailed(c) /\ UNCHANGED serverVars
    \/ Logout /\ UNCHANGED serverVars
    \/ \E c \in CallIds : Abandon(c) /\ UNCHANGED serverVars
    \/ \E page \in Pages : PageLoad(page) /\ UNCHANGED serverVars
    \/ \E c \in CallIds, op \in ResourceOps : StartResource(c, op) /\ UNCHANGED serverVars
    \/ \E c \in CallIds, ok \in BOOLEAN : ResourceFetched(c, ok) /\ UNCHANGED serverVars
    \/ \E c \in CallIds : ResourceFetchFailed(c) /\ UNCHANGED serverVars
    \/ \E c \in CallIds : ResourceJson(c) /\ UNCHANGED serverVars
    \/ \E c \in CallIds : ResourceJsonFailed(c) /\ UNCHANGED serverVars

\* The browser side: AuthAPI and the resource wrappers against localStorage.
SpecClient == Init /\ [][NextClient]_vars

(* ---------------------------------------------------------------- claims *)
ResetReqs == {r \in ReqIds : reqs[r].kind = "reset"}
ForgotReqs == {r \in ReqIds : reqs[r].kind = "forgot"}

\* C1: of two reset-password requests that both looked up the same still-valid
\* token row, exactly one is answered with success; the credential is not
\* updated twice.
C1_OneRacerWins ==
    \A r1, r2 \in ResetReqs :
        (/\ r1 # r2
         /\ reqs[r1].row # NoRow /\ reqs[r1].row = reqs[r2].row
         /\ reqs[r1].pc = "done" /\ reqs[r2].pc = "done")
        => ~(reqs[r1].resp = SuccessResp /\ reqs[r2].resp = SuccessResp)

\* C2: a token record succeeds once: a confirmation presented after the record
\* was consumed (answered with success) is answered 'Invalid or expired token'
\* and runs no UPDATE; a confirmation that found the record active and was
\* answered at all was answered with success.
C2_ConsumedNeverValidatesAgain ==
    \A r \in ResetReqs :
        /\ cause[r] = "consumed" =>
              /\ reqs[r].pc = "done" /\ reqs[r].resp = InvalidResp
              /\ reqs[r].row = NoRow /\ reqs[r].rowCount = -1
        /\ (cause[r] = "active" /\ reqs[r].pc = "done") =>
              reqs[r].resp \in {SuccessResp, Threw}

C2_Witness ==
    /\ consumed # {}
    /\ \E r \in ResetReqs : cause[r] = "consumed" /\ reqs[r].resp = InvalidResp

C4_SameResponseForAnyEmail ==
    \A r1, r2 \in ForgotReqs :
        (/\ reqs[r1].pc = "done" /\ reqs[r2].pc = "done"
         /\ reqs[r1].resp # Threw /\ reqs[r2].resp # Threw)
        => reqs[r1].resp = reqs[r2].resp

\* C5: a reset-password request ended by a store failure never leaves the
\* credential updated while its token row is still in the table.
C5_UpdateAndDeleteAtomic ==
    \A r \in ResetReqs :
        (reqs[r].pc = "done" /\ reqs[r].resp = Threw)
        => ~(reqs[r].rowCount = 1 /\ reqs[r].row \in password_resets)

C7_WeakPasswordRejectedFirst ==
    \A r \in ResetReqs :
        ~MeetsPolicy(reqs[r].password) =>
            /\ reqs[r].row = NoRow /\ reqs[r].rowCount = -1
            /\ reqs[r].resp \notin {SuccessResp, InvalidResp}

\* C8: a confirmation with a valid token whose account no longer exists (its
\* UPDATE matched no row) is answered 'Invalid or expired token'.
C8_MissingAccountRejected ==
    \A r \in ResetReqs :
        (reqs[r].pc = "done" /\ reqs[r].rowCount = 0 /\ reqs[r].resp # Threw)
        => reqs[r].resp = InvalidResp

\* C9: a forgot-password request whose mail dispatch failed is answered like
\* one whose mail was dispatched.
C9_MailFailureNotSurfaced ==
    \A r \in ForgotReqs :
        (reqs[r].pc = "done" /\ reqs[r].mail = "failed") => reqs[r].resp = LinkSentResp

C11_TokensIndependent ==
    [][\A x \in password_resets :
          x \notin password_resets' =>
              \E r \in ReqIds :
                  /\ reqs[r].kind = "reset" /\ reqs[r].pc = "delete"
                  /\ reqs[r].token = x.token
                  /\ reqs'[r].resp = SuccessResp]_vars

C11_Witness ==
    \E r \in ResetReqs :
        /\ reqs[r].pc = "done" /\ reqs[r].resp = SuccessResp
        /\ \E x \in password_resets :
              /\ x.email = reqs[r].row.email /\ x.token # reqs[r].token
              /\ x.id < reqs[r].row.id
              /\ x.expires_at > now

\* C12: token values are unique across the stored rows, and a forgot-password
\* request whose INSERT meets an already stored token value is not failed by
\* it: it goes on (with a regenerated token) instead of throwing.
C12_CollisionRegenerates ==
    [][/\ \A x, y \in password_resets' : x.token = y.token => x = y
       /\ \A r \in ReqIds :
            (/\ reqs[r].kind = "forgot" /\ reqs[r].pc = "insert"
             /\ nextId' # nextId /\ reqs'[r] # reqs[r]
             /\ \E x \in password_resets : x.token = reqs[r].token)
            => reqs'[r].resp # Threw]_vars

\* C13 (as claimed): a confirmation whose token has a stored row is rejected
\* exactly when now > expires_at.
C13_RejectedOnlyAfterExpiresAt ==
    [][\A r \in ReqIds :
          (/\ reqs[r].kind = "reset" /\ reqs[r].pc = "lookup"
           /\ cause'[r] # "none"
           /\ \E x \in password_resets : x.token = reqs[r].token)
          => (reqs'[r].resp = InvalidResp
                <=> \A x \in password_resets :
                       x.token = reqs[r].token => now > x.expires_at)]_vars

\* C13 (amended): a confirmation whose token has a stored row is rejected
\* exactly when now >= expires_at; otherwise the row is read and the request
\* goes on to the UPDATE.
C13_RejectedFromExpiresAtOn ==
    [][\A r \in ReqIds :
          (/\ reqs[r].kind = "reset" /\ reqs[r].pc = "lookup"
           /\ cause'[r] # "none"
           /\ \E x \in password_resets : x.token = reqs[r].token)
          => /\ reqs'[r].resp = InvalidResp
                  <=> \A x \in password_resets :
                         x.token = reqs[r].token => now >= x.expires_at
             /\ reqs'[r].resp # InvalidResp => reqs'[r].pc = "update"]_vars

C13_Witness ==
    \E r \in ResetReqs :
        /\ cause[r] = "expired" /\ reqs[r].pc = "done" /\ reqs[r].resp = InvalidResp
        /\ \E x \in password_resets : x.token = reqs[r].token /\ x.expires_at = now

\* C14: a login or signup call that returns has either stored access_token and
\* user of an ok response and returned success, or returned { success: false,
\* error } with localStorage left as it was; it stores only after an ok
\* response, and it never throws.
C14_SessionStoredOnlyOnOk ==
    [][\A c \in CallIds :
          (calls[c].op \in AuthOps /\ InFlight(c) /\ calls'[c].pc = "done")
          => IF calls'[c].ret.t = "success"
             THEN /\ calls[c].pc = "json" /\ calls[c].ok
                  /\ \E d \in OkResponses :
                        /\ calls'[c].ret = AuthSuccess(d)
                        /\ localStorage'["access_token"] = d.access_token
                        /\ localStorage'["user"] = Stringify(d.user)
             ELSE /\ calls'[c].ret.t = "failure"
                  /\ localStorage' = localStorage]_vars

C14_Witness ==
    \E c1, c2 \in CallIds :
        /\ calls[c1].op \in AuthOps /\ calls[c1].ret.t = "success"
        /\ calls[c2].op \in AuthOps /\ calls[c2].ret = AuthFailure(NetworkError)
        /\ IsLoggedIn /\ localStorage["access_token"] = calls[c1].ret.v

\* C15: right after AuthAPI.logout, whatever the session was, isLoggedIn() is
\* false, getCurrentUser() is null and neither key is stored.
C15_LogoutClearsSession ==
    [][Logout => /\ ~IsLoggedIn'
                 /\ GetCurrentUser' = NullUser
                 /\ DOMAIN localStorage' = {}]_vars

C15_Witness ==
    /\ loggedOut /\ ~IsLoggedIn /\ GetCurrentUser = NullUser
    /\ \E c \in CallIds : calls[c].ret.t = "success"

C17_StaleLoginDoesNotRestoreSession ==
    loggedOut => ~IsLoggedIn

\* C18 (as claimed): a resource wrapper never throws, and when it fails every
\* get* wrapper returns [] and every create*/update* wrapper returns null.
GetOps ==
    {"getEvents", "getMoodEntries", "getMoodAnalytics", "getGoals", "getStudySessions",
     "getStudyAnalytics"}
CreateUpdateOps ==
    {"createEvent", "updateEvent", "createMoodEntry", "createGoal", "updateGoalProgress",
     "createStudySession"}
C18_GettersReturnEmptyList ==
    \A c \in CallIds :
        (calls[c].op \in ResourceOps /\ calls[c].pc = "done")
        => /\ calls[c].ret # JsThrew
           /\ calls[c].ret # JsPayload =>
                 /\ calls[c].op \in GetOps => calls[c].ret = JsEmptyList
                 /\ calls[c].op \in CreateUpdateOps => calls[c].ret = JsNull

\* C18 (amended): no step of a resource wrapper changes localStorage, and a
\* wrapper that returns never throws: unless it returns the parsed body of an
\* ok response (deleteEvent: true), the four list getters return [], the two
\* analytics getters and every create*/update* wrapper return null, and
\* deleteEvent returns false.
C18_WrappersReturnTheirFailureValue ==
    [][\A c \in CallIds :
          (calls[c].op \in ResourceOps /\ calls'[c].pc # calls[c].pc /\ InFlight(c))
          => /\ localStorage' = localStorage
             /\ calls'[c].pc = "done" =>
                   \/ calls[c].pc = "json" /\ calls[c].ok /\ calls'[c].ret = JsPayload
                   \/ calls[c].op = "deleteEvent" /\ calls'[c].ret = JsTrue
                   \/ /\ calls[c].op \in {"getEvents", "getMoodEntries", "getGoals",
                                          "getStudySessions"}
                      /\ calls'[c].ret = JsEmptyList
                   \/ /\ calls[c].op \in CreateUpdateOps \cup
                                          {"getMoodAnalytics", "getStudyAnalytics"}
                      /\ calls'[c].ret = JsNull
                   \/ calls[c].op = "deleteEvent" /\ calls'[c].ret = JsFalse]_vars

C18_Witness ==
    \E c1, c2 \in CallIds :
        /\ calls[c1].op = "getMoodAnalytics" /\ calls[c1].ret = JsNull
        /\ calls[c2].op = "getEvents" /\ calls[c2].ret = JsEmptyList
        /\ IsLoggedIn

====
